---------------------------- MODULE Spec2Model ----------------------------
(***************************************************************************)
(* Student Group Conflict Checker (group_check.py).                        *)
(*                                                                         *)
(* A Python str is modelled as the sequence of its code points, a list as  *)
(* a sequence, a set as a set and a 2-tuple as a 2-element sequence.       *)
(* Strings are compared as Python compares them: code point by code point, *)
(* a proper prefix being smaller.                                          *)
(***************************************************************************)
EXTENDS Integers, Sequences, FiniteSets, TLC

(***************************************************************************)
(* Bounds of the model.                                                    *)
(***************************************************************************)
\* groups plus member entries in a previous roster
MaxPreviousSize == 4
\* groups plus member entries in a proposed roster
MaxProposedSize == 6
\* elements plus their items in the top-level array of a JSON file
MaxDocSize == 3

(***************************************************************************)
(* Member names: "A", "Ab", "a" as code points.  "A" is a proper prefix of *)
(* "Ab", and "a" differs from "A" only in letter case.                     *)
(***************************************************************************)
NameA == <<65>>
NameAb == <<65, 98>>
NameLowerA == <<97>>
Members == {NameA, NameAb, NameLowerA}
\* the names proposed rosters are drawn from
ProposedMembers == {NameA, NameLowerA}

RECURSIVE RostersUpTo(_, _)
\* every roster (list of lists of names of M) of at most n entries
RostersUpTo(n, M) ==
    {<<>>} \cup
    UNION { { <<g>> \o r : g \in [1..k -> M], r \in RostersUpTo(n - 1 - k, M) }
            : k \in 0..(n - 1) }

PreviousRosters == RostersUpTo(MaxPreviousSize, Members)
ProposedRosters == RostersUpTo(MaxProposedSize, ProposedMembers)

(***************************************************************************)
(* Python's str comparison and the builtins the engine uses.               *)
(***************************************************************************)
RECURSIVE StrLtFrom(_, _, _)
StrLtFrom(s, t, i) ==
    IF i > Len(s) THEN i <= Len(t)
    ELSE IF i > Len(t) THEN FALSE
    ELSE IF s[i] # t[i] THEN s[i] < t[i]
    ELSE StrLtFrom(s, t, i + 1)

\* s < t on two str
StrLt(s, t) == StrLtFrom(s, t, 1)

\* variant: the pair is kept in the order the members were listed
Unsorted2(student1, student2) == <<student1, student2>>

\* sorted([student1, student2]): a stable sort of two elements
Sorted2(student1, student2) ==
    IF StrLt(student2, student1) THEN <<student2, student1>>
    ELSE <<student1, student2>>

RECURSIVE SortedSetDescending(_)
\* variant: sorted(S, reverse=True)
SortedSetDescending(S) ==
    IF S = {} THEN <<>>
    ELSE LET m == CHOOSE x \in S : \A y \in S : ~StrLt(x, y)
         IN  <<m>> \o SortedSetDescending(S \ {m})

RECURSIVE SortedSet(_)
\* sorted(S) for a set S of str
SortedSet(S) ==
    IF S = {} THEN <<>>
    ELSE LET m == CHOOSE x \in S : \A y \in S : ~StrLt(y, x)
         IN  <<m>> \o SortedSet(S \ {m})

RECURSIVE CombinationsFrom(_, _, _)
\* itertools.combinations(group, 2) from positions (i, j) on, in its order:
\* (1,2), (1,3), ..., (1,n), (2,3), ...
CombinationsFrom(group, i, j) ==
    IF i >= Len(group) THEN <<>>
    ELSE IF j > Len(group) THEN CombinationsFrom(group, i + 1, i + 2)
    ELSE <<<<group[i], group[j]>>>> \o CombinationsFrom(group, i, j + 1)

combinations2(group) == CombinationsFrom(group, 1, 2)

(***************************************************************************)
(* GroupChecker                                                            *)
(***************************************************************************)
RECURSIVE PairsOfGroupDistinctNames(_, _, _)
\* variant: a combination of two equal names is skipped
PairsOfGroupDistinctNames(combos, k, pairs) ==
    IF k > Len(combos) THEN pairs
    ELSE PairsOfGroupDistinctNames(combos, k + 1,
             IF combos[k][1] = combos[k][2] THEN pairs
             ELSE pairs \cup {Sorted2(combos[k][1], combos[k][2])})

RECURSIVE PairsOfGroup(_, _, _)
\* the inner loop of _build_pair_set: pairs.add(tuple(sorted([s1, s2])))
PairsOfGroup(combos, k, pairs) ==
    IF k > Len(combos) THEN pairs
    ELSE PairsOfGroup(combos, k + 1,
                      pairs \cup {Sorted2(combos[k][1], combos[k][2])})

RECURSIVE BuildPairSetFromLastGroup(_, _, _)
\* variant: pairs = set() inside the loop over the groups
BuildPairSetFromLastGroup(groups, g, pairs) ==
    IF g > Len(groups) THEN pairs
    ELSE BuildPairSetFromLastGroup(groups, g + 1,
             PairsOfGroup(combinations2(groups[g]), 1, {}))

RECURSIVE BuildPairSetFrom(_, _, _)
BuildPairSetFrom(groups, g, pairs) ==
    IF g > Len(groups) THEN pairs
    ELSE BuildPairSetFrom(groups, g + 1,
                          PairsOfGroup(combinations2(groups[g]), 1, pairs))

build_pair_set(groups) == BuildPairSetFrom(groups, 1, {})

RECURSIVE GetAllStudentsFrom(_, _, _)
GetAllStudentsFrom(groups, g, students) ==
    IF g > Len(groups) THEN students
    ELSE GetAllStudentsFrom(groups, g + 1,
             students \cup {groups[g][i] : i \in 1..Len(groups[g])})

get_all_students(groups) == GetAllStudentsFrom(groups, 1, {})

RECURSIVE GroupConflictsFromSortedStudents(_, _, _, _)
\* variant: 'students' records the sorted pair
GroupConflictsFromSortedStudents(combos, k, pairs, group_conflicts) ==
    IF k > Len(combos) THEN group_conflicts
    ELSE LET pair == Sorted2(combos[k][1], combos[k][2])
         IN  GroupConflictsFromSortedStudents(combos, k + 1, pairs,
                 IF pair \in pairs
                 THEN Append(group_conflicts, [students |-> pair, pair |-> pair])
                 ELSE group_conflicts)

RECURSIVE GroupConflictsFrom(_, _, _, _)
\* the inner loop of check_proposed_groups over one group's combinations
GroupConflictsFrom(combos, k, pairs, group_conflicts) ==
    IF k > Len(combos) THEN group_conflicts
    ELSE LET student1 == combos[k][1]
             student2 == combos[k][2]
             pair == Sorted2(student1, student2)
         IN  GroupConflictsFrom(combos, k + 1, pairs,
                 IF pair \in pairs
                 THEN Append(group_conflicts,
                             [students |-> <<student1, student2>>, pair |-> pair])
                 ELSE group_conflicts)

RECURSIVE CheckProposedFromEveryGroup(_, _, _, _)
\* variant: a record is appended for every proposed group
CheckProposedFromEveryGroup(pairs, proposed, g, conflicts) ==
    IF g > Len(proposed) THEN conflicts
    ELSE CheckProposedFromEveryGroup(pairs, proposed, g + 1,
             Append(conflicts,
                    [group_index |-> g - 1,
                     group_members |-> proposed[g],
                     conflicts |-> GroupConflictsFrom(
                                       combinations2(proposed[g]), 1, pairs, <<>>)]))

RECURSIVE CheckProposedFrom(_, _, _, _)
\* the outer loop; group_index is 0-based as enumerate() gives it
CheckProposedFrom(pairs, proposed, g, conflicts) ==
    IF g > Len(proposed) THEN conflicts
    ELSE LET group == proposed[g]
             group_conflicts ==
                 GroupConflictsFrom(combinations2(group), 1, pairs, <<>>)
         IN  CheckProposedFrom(pairs, proposed, g + 1,
                 IF group_conflicts # <<>>
                 THEN Append(conflicts,
                             [group_index |-> g - 1,
                              group_members |-> group,
                              conflicts |-> group_conflicts])
                 ELSE conflicts)

\* GroupChecker.check_proposed_groups, reading self.previous_pairs
check_proposed_groups(pairs, proposed) == CheckProposedFrom(pairs, proposed, 1, <<>>)

\* GroupChecker.find_missing_students, reading self.previous_students
find_missing_students(students, proposed) ==
    LET proposed_students == get_all_students(proposed)
        missing == students \ proposed_students
    IN  SortedSet(missing)

(***************************************************************************)
(* JSON files.  A file's text is its sequence of JSON tokens; a parsed     *)
(* value carries its Python type: str, int, dict or list.                  *)
(***************************************************************************)
PyStr(s) == [t |-> "str", v |-> s]
PyInt == [t |-> "int", v |-> <<>>]
PyDict == [t |-> "dict", v |-> <<>>]
PyList(items) == [t |-> "list", v |-> items]
PyNone == [t |-> "NoneType", v |-> <<>>]

Tok(c) == [tok |-> c, s |-> <<>>]
StrTok(s) == [tok |-> "string", s |-> s]

RECURSIVE JsonDump(_)
RECURSIVE JsonDumpItems(_, _)
\* json.dump(value, f): the tokens written
JsonDump(value) ==
    CASE value.t = "str" -> <<StrTok(value.v)>>
      [] value.t = "int" -> <<Tok("number")>>
      [] value.t = "dict" -> <<Tok("{"), Tok("}")>>
      [] value.t = "list" -> <<Tok("[")>> \o JsonDumpItems(value.v, 1) \o <<Tok("]")>>

JsonDumpItems(items, i) ==
    IF i > Len(items) THEN <<>>
    ELSE JsonDump(items[i])
             \o (IF i < Len(items) THEN <<Tok(",")>> ELSE <<>>)
             \o JsonDumpItems(items, i + 1)

ParseError == [ok |-> FALSE, value |-> PyNone, next |-> 0]

RECURSIVE ParseValue(_, _)
RECURSIVE ParseArray(_, _, _)
\* the JSON value that starts at token i: [ok, value, next token]
ParseValue(text, i) ==
    IF i > Len(text) THEN ParseError
    ELSE CASE text[i].tok = "string" ->
                  [ok |-> TRUE, value |-> PyStr(text[i].s), next |-> i + 1]
           [] text[i].tok = "number" ->
                  [ok |-> TRUE, value |-> PyInt, next |-> i + 1]
           [] text[i].tok = "{" ->
                  IF i + 1 <= Len(text) /\ text[i + 1].tok = "}"
                  THEN [ok |-> TRUE, value |-> PyDict, next |-> i + 2]
                  ELSE ParseError
           [] text[i].tok = "[" ->
                  IF i + 1 <= Len(text) /\ text[i + 1].tok = "]"
                  THEN [ok |-> TRUE, value |-> PyList(<<>>), next |-> i + 2]
                  ELSE ParseArray(text, i + 1, <<>>)
           [] OTHER -> ParseError

\* the elements of an array from token i on, after "[" or ","
ParseArray(text, i, items) ==
    LET element == ParseValue(text, i)
    IN  IF ~element.ok \/ element.next > Len(text) THEN ParseError
        ELSE IF text[element.next].tok = "]"
        THEN [ok |-> TRUE, value |-> PyList(Append(items, element.value)),
              next |-> element.next + 1]
        ELSE IF text[element.next].tok = ","
        THEN ParseArray(text, element.next + 1, Append(items, element.value))
        ELSE ParseError

\* json.load(f): one value and nothing after it, or JSONDecodeError
JsonLoad(text) ==
    LET parsed == ParseValue(text, 1)
    IN  IF parsed.ok /\ parsed.next = Len(text) + 1
        THEN [ok |-> TRUE, value |-> parsed.value]
        ELSE [ok |-> FALSE, value |-> PyNone]

(***************************************************************************)
(* The files a run may find: missing, or holding the dump of a document,   *)
(* or holding a text that is not JSON (a dump cut short, a dump followed   *)
(* by a stray "]", an array with a trailing comma).                        *)
(***************************************************************************)
\* what an inner array of a document may hold
DocItems == {PyStr(NameA), PyStr(NameLowerA), PyInt}
\* the elements of the top-level array that are not arrays
DocNonArrays == {PyStr(NameA), PyInt}
\* the documents whose top-level value is not an array
DocScalars == {PyStr(NameA), PyInt, PyDict}

\* the elements of w entries: itself plus its items
ElementsOfSize(w) ==
    {PyList(items) : items \in [1..(w - 1) -> DocItems]}
        \cup (IF w = 1 THEN DocNonArrays ELSE {})

RECURSIVE ArraysUpTo(_)
ArraysUpTo(n) ==
    {<<>>} \cup
    UNION { { <<e>> \o rest : e \in ElementsOfSize(w), rest \in ArraysUpTo(n - w) }
            : w \in 1..n }

Docs == DocScalars \cup {PyList(elements) : elements \in ArraysUpTo(MaxDocSize)}

WellFormedTexts == {JsonDump(doc) : doc \in Docs}

MalformedTexts ==
    {SubSeq(text, 1, Len(text) - 1) : text \in WellFormedTexts}
        \cup {text \o <<Tok("]")>> : text \in WellFormedTexts}
        \cup {SubSeq(text, 1, Len(text) - 1) \o <<Tok(","), Tok("]")>> :
                 text \in {t \in WellFormedTexts : Len(t) > 2}}

MissingFile == [exists |-> FALSE, text |-> <<>>]

Files ==
    {MissingFile}
        \cup {[exists |-> TRUE, text |-> text] :
                 text \in WellFormedTexts \cup MalformedTexts}

(***************************************************************************)
(* load_groups_from_file                                                   *)
(***************************************************************************)
NoException == [kind |-> "none", message |-> "", filepath |-> "", index |-> 0]

Exception(kind, message, filepath, index) ==
    [kind |-> kind, message |-> message, filepath |-> filepath, index |-> index]

Raise(exception) == [raised |-> exception, value |-> PyNone]
Return(value) == [raised |-> NoException, value |-> value]

RECURSIVE ValidateGroupsFromListsOnly(_, _, _)
\* variant: the members of a group are not looked at
ValidateGroupsFromListsOnly(filepath, data, g) ==
    IF g > Len(data.v) THEN Return(data)
    ELSE IF data.v[g].t # "list"
    THEN Raise(Exception("ValueError", "Group {i} in {filepath} is not a list",
                         filepath, g - 1))
    ELSE ValidateGroupsFromListsOnly(filepath, data, g + 1)

RECURSIVE ValidateGroupsFromOneMessage(_, _, _)
\* variant: one message for both violations of a group
ValidateGroupsFromOneMessage(filepath, data, g) ==
    IF g > Len(data.v) THEN Return(data)
    ELSE IF \/ data.v[g].t # "list"
            \/ ~(\A m \in DOMAIN data.v[g].v : data.v[g].v[m].t = "str")
    THEN Raise(Exception("ValueError", "Group {i} in {filepath} is not a list",
                         filepath, g - 1))
    ELSE ValidateGroupsFromOneMessage(filepath, data, g + 1)

RECURSIVE ValidateGroupsFrom(_, _, _)
\* the loop over enumerate(data)
ValidateGroupsFrom(filepath, data, g) ==
    IF g > Len(data.v) THEN Return(data)
    ELSE LET group == data.v[g]
         IN  IF group.t # "list"
             THEN Raise(Exception("ValueError",
                                  "Group {i} in {filepath} is not a list",
                                  filepath, g - 1))
             ELSE IF ~(\A m \in DOMAIN group.v : group.v[m].t = "str")
             THEN Raise(Exception("ValueError",
                                  "All group members in {filepath} must be strings",
                                  filepath, 0))
             ELSE ValidateGroupsFrom(filepath, data, g + 1)

load_groups_from_file(filepath, file) ==
    IF ~file.exists
    THEN Raise(Exception("FileNotFoundError", "File not found: {filepath}",
                         filepath, 0))
    ELSE LET loaded == JsonLoad(file.text)
         IN  IF ~loaded.ok
             THEN Raise(Exception("JSONDecodeError", "{msg}: line {l} column {c}",
                                  "", 0))
             ELSE IF loaded.value.t # "list"
             THEN Raise(Exception("ValueError",
                                  "Expected a list of groups in {filepath}",
                                  filepath, 0))
             ELSE ValidateGroupsFrom(filepath, loaded.value, 1)

\* a validated document as the List[List[str]] the engine works on
RosterOf(data) ==
    [g \in 1..Len(data.v) |->
        [m \in 1..Len(data.v[g].v) |-> data.v[g].v[m].v]]

(***************************************************************************)
(* print_report and main's except clauses                                  *)
(***************************************************************************)
\* one print() call: the format string and what it is filled with
Line(format, data) == [line |-> format, data |-> data]

RECURSIVE ConflictLinesFrom(_, _)
\* the loop over the conflicts in print_report
ConflictLinesFrom(found, k) ==
    IF k > Len(found) THEN <<>>
    ELSE <<Line("Group {group_idx + 1}: {group_members}",
                <<found[k].group_index + 1, found[k].group_members>>),
           Line("  Conflicts:", <<>>)>>
         \o [n \in 1..Len(found[k].conflicts) |->
                Line("    - {student1} and {student2} have previously been in a group together",
                     found[k].conflicts[n].students)]
         \o <<Line("", <<>>)>>
         \o ConflictLinesFrom(found, k + 1)

\* the lines print_report(conflicts, missing_students) prints
print_report(found, missing) ==
    IF found = <<>> /\ missing = <<>>
    THEN <<Line("No conflicts found! All proposed groups have novel member combinations.", <<>>),
           Line("All students from previous groups are included in proposed groups.", <<>>)>>
    ELSE (IF found # <<>>
          THEN <<Line("Found conflicts in {len(conflicts)} proposed group(s):", Len(found))>>
                   \o ConflictLinesFrom(found, 1)
          ELSE <<>>)
         \o
         (IF missing # <<>>
          THEN <<Line("Warning: {len(missing_students)} student(s) from previous groups are missing from proposed groups:", Len(missing))>>
                   \o [n \in 1..Len(missing) |-> Line("  - {student}", missing[n])]
                   \o <<Line("", <<>>)>>
          ELSE <<>>)

\* the result main prints with --json
json_result(found, missing) ==
    [has_conflicts |-> Len(found) > 0,
     num_conflicts |-> Len(found),
     conflicts |-> found,
     missing_students |-> missing,
     num_missing |-> Len(missing)]

\* the classes an exception of each kind is an instance of
Classes(kind) ==
    CASE kind = "FileNotFoundError" -> {"FileNotFoundError", "OSError", "Exception"}
      [] kind = "JSONDecodeError" -> {"JSONDecodeError", "ValueError", "Exception"}
      [] kind = "UnicodeEncodeError" -> {"UnicodeEncodeError", "ValueError", "Exception"}
      [] kind = "ValueError" -> {"ValueError", "Exception"}
      [] kind = "OSError" -> {"OSError", "Exception"}

\* the first except clause of main that matches: what it prints to stderr
ExceptClause(exception) ==
    IF "FileNotFoundError" \in Classes(exception.kind) THEN "Error: {e}"
    ELSE IF "JSONDecodeError" \in Classes(exception.kind)
    THEN "Error: Invalid JSON in file - {e}"
    ELSE IF "ValueError" \in Classes(exception.kind) THEN "Error: {e}"
    ELSE "Unexpected error: {e}"

\* what print() of the report can raise: the text report holds characters
\* outside ASCII, which stdout's encoding may not have; stdout may be closed
\* by its reader
PrintFaults(json) ==
    IF json THEN {"OSError"} ELSE {"OSError", "UnicodeEncodeError"}

PreviousPath == "previous_groups.json"
ProposedPath == "proposed_groups.json"
\* exit_code while the process runs
Running == -1

(***************************************************************************)
(* State.                                                                  *)
(***************************************************************************)
VARIABLES
    checker,            \* "GroupChecker" once an instance exists
    previous_groups,    \* GroupChecker.previous_groups
    previous_pairs,     \* GroupChecker.previous_pairs
    previous_students,  \* GroupChecker.previous_students
    op,                 \* the method that last returned, "none" between calls
    proposed_groups,    \* its argument
    conflicts,          \* what check_proposed_groups returned
    missing_students,   \* what find_missing_students returned
    pc,                 \* where main is; "imported" when main does not run
    args,               \* the parsed command line: verbose, json
    previous_file,      \* what the previous-groups path held when read
    proposed_file,      \* what the proposed-groups path held when read
    previous_load,      \* the outcome of loading the previous groups
    proposed_load,      \* the outcome of loading the proposed groups
    stdout,             \* the lines printed
    stderr,             \* the error messages printed
    exit_code           \* the process's exit code

engine == <<checker, previous_groups, previous_pairs, previous_students>>
call == <<op, proposed_groups, conflicts, missing_students>>
files == <<previous_file, proposed_file, previous_load, proposed_load>>
cli == <<pc, args, previous_file, proposed_file, previous_load, proposed_load,
         stdout, stderr, exit_code>>
vars == <<checker, previous_groups, previous_pairs, previous_students,
          op, proposed_groups, conflicts, missing_students,
          pc, args, previous_file, proposed_file, previous_load, proposed_load,
          stdout, stderr, exit_code>>

NotCalled == [called |-> FALSE, raised |-> NoException, value |-> PyNone]

Called(outcome) ==
    [called |-> TRUE, raised |-> outcome.raised, value |-> outcome.value]

\* GroupChecker.__init__(previous_groups)
Construct(groups) ==
    /\ checker = "GroupChecker"
    /\ previous_groups = groups
    /\ previous_pairs = build_pair_set(groups)
    /\ previous_students = get_all_students(groups)

NoCall ==
    /\ op = "none"
    /\ proposed_groups = <<>>
    /\ conflicts = <<>>
    /\ missing_students = <<>>

(***************************************************************************)
(* GroupChecker used as a library: an instance is built from a roster and  *)
(* its two methods are called any number of times.                         *)
(***************************************************************************)
Init ==
    /\ \E groups \in PreviousRosters : Construct(groups)
    /\ NoCall
    /\ pc = "imported"
    /\ args = [verbose |-> FALSE, json |-> FALSE]
    /\ previous_file = MissingFile
    /\ proposed_file = MissingFile
    /\ previous_load = NotCalled
    /\ proposed_load = NotCalled
    /\ stdout = <<>>
    /\ stderr = <<>>
    /\ exit_code = Running

\* variant: the call also records the proposal's pairs in previous_pairs
CallCheckProposedGroupsRemembering(proposed) ==
    /\ op' = "check_proposed_groups"
    /\ proposed_groups' = proposed
    /\ conflicts' = check_proposed_groups(previous_pairs, proposed)
    /\ previous_pairs' = previous_pairs \cup build_pair_set(proposed)
    /\ UNCHANGED <<checker, previous_groups, previous_students, missing_students>>

\* checker.check_proposed_groups(proposed)
CallCheckProposedGroups(proposed) ==
    /\ op' = "check_proposed_groups"
    /\ proposed_groups' = proposed
    /\ conflicts' = check_proposed_groups(previous_pairs, proposed)
    /\ UNCHANGED <<engine, missing_students>>

\* checker.find_missing_students(proposed)
CallFindMissingStudents(proposed) ==
    /\ op' = "find_missing_students"
    /\ proposed_groups' = proposed
    /\ missing_students' = find_missing_students(previous_students, proposed)
    /\ UNCHANGED <<engine, conflicts>>

\* the caller is done with the returned list; the instance stays in use
Release ==
    /\ op # "none"
    /\ op' = "none"
    /\ proposed_groups' = <<>>
    /\ conflicts' = <<>>
    /\ missing_students' = <<>>
    /\ UNCHANGED <<engine, cli>>

Next ==
    \/ /\ op = "none"
       /\ \E proposed \in ProposedRosters : CallCheckProposedGroups(proposed)
       /\ UNCHANGED cli
    \/ /\ op = "none"
       /\ \E proposed \in ProposedRosters : CallFindMissingStudents(proposed)
       /\ UNCHANGED cli
    \/ Release

Spec == Init /\ [][Next]_vars

(***************************************************************************)
(* main(), from the parsed arguments on.                                   *)
(***************************************************************************)
InitCli ==
    /\ checker = "none"
    /\ previous_groups = <<>>
    /\ previous_pairs = {}
    /\ previous_students = {}
    /\ NoCall
    /\ pc = "load_previous"
    /\ args \in [verbose : BOOLEAN, json : BOOLEAN]
    /\ previous_file = MissingFile
    /\ proposed_file = MissingFile
    /\ previous_load = NotCalled
    /\ proposed_load = NotCalled
    /\ stdout = <<>>
    /\ stderr = <<>>
    /\ exit_code = Running

\* an exception reaches main's except clauses: the message goes to stderr and
\* the process exits with code 2
Handle(exception) ==
    /\ stderr' = Append(stderr, Line(ExceptClause(exception), exception))
    /\ exit_code' = 2
    /\ pc' = "exited"

\* variant: the error of the first load is printed and the run goes on
LoadPreviousGoingOn ==
    /\ pc = "load_previous"
    /\ \E file \in Files :
           LET outcome == load_groups_from_file(PreviousPath, file)
           IN  /\ previous_file' = file
               /\ previous_load' = Called(outcome)
               /\ stdout' = IF args.verbose
                            THEN Append(stdout,
                                     Line("Loading previous groups from: {args.previous_groups}",
                                          PreviousPath))
                            ELSE stdout
               /\ pc' = "load_proposed"
               /\ stderr' = IF outcome.raised.kind = "none" THEN stderr
                            ELSE Append(stderr, Line(ExceptClause(outcome.raised),
                                                     outcome.raised))
               /\ UNCHANGED exit_code
    /\ UNCHANGED <<engine, call, args, proposed_file, proposed_load>>

\* previous_groups = load_groups_from_file(args.previous_groups)
LoadPrevious ==
    /\ pc = "load_previous"
    /\ \E file \in Files :
           LET outcome == load_groups_from_file(PreviousPath, file)
           IN  /\ previous_file' = file
               /\ previous_load' = Called(outcome)
               /\ stdout' = IF args.verbose
                            THEN Append(stdout,
                                     Line("Loading previous groups from: {args.previous_groups}",
                                          PreviousPath))
                            ELSE stdout
               /\ IF outcome.raised.kind = "none"
                  THEN pc' = "load_proposed" /\ UNCHANGED <<stderr, exit_code>>
                  ELSE Handle(outcome.raised)
    /\ UNCHANGED <<engine, call, args, proposed_file, proposed_load>>

\* proposed_groups = load_groups_from_file(args.proposed_groups)
LoadProposed ==
    /\ pc = "load_proposed"
    /\ \E file \in Files :
           LET outcome == load_groups_from_file(ProposedPath, file)
               loading == IF args.verbose
                          THEN Append(stdout,
                                   Line("Loading proposed groups from: {args.proposed_groups}",
                                        ProposedPath))
                          ELSE stdout
           IN  /\ proposed_file' = file
               /\ proposed_load' = Called(outcome)
               /\ IF outcome.raised.kind = "none"
                  THEN /\ pc' = "construct"
                       /\ stdout' =
                              IF args.verbose
                              THEN loading \o
                                   <<Line("Loaded {len(previous_groups)} previous group(s)",
                                          Len(previous_load.value.v)),
                                     Line("Loaded {len(proposed_groups)} proposed group(s)",
                                          Len(outcome.value.v)),
                                     Line("", <<>>)>>
                              ELSE loading
                       /\ UNCHANGED <<stderr, exit_code>>
                  ELSE /\ stdout' = loading
                       /\ Handle(outcome.raised)
    /\ UNCHANGED <<engine, call, args, previous_file, previous_load>>

\* checker = GroupChecker(previous_groups)
ConstructChecker ==
    /\ pc = "construct"
    /\ checker' = "GroupChecker"
    /\ previous_groups' = RosterOf(previous_load.value)
    /\ previous_pairs' = build_pair_set(RosterOf(previous_load.value))
    /\ previous_students' = get_all_students(RosterOf(previous_load.value))
    /\ pc' = "check"
    /\ UNCHANGED <<call, args, files, stdout, stderr, exit_code>>

\* conflicts = checker.check_proposed_groups(proposed_groups)
CheckProposed ==
    /\ pc = "check"
    /\ CallCheckProposedGroups(RosterOf(proposed_load.value))
    /\ pc' = "find_missing"
    /\ UNCHANGED <<args, files, stdout, stderr, exit_code>>

\* missing_students = checker.find_missing_students(proposed_groups)
FindMissing ==
    /\ pc = "find_missing"
    /\ CallFindMissingStudents(RosterOf(proposed_load.value))
    /\ pc' = "report"
    /\ UNCHANGED <<args, files, stdout, stderr, exit_code>>

\* print(json.dumps(result, indent=2)) or print_report(conflicts, missing_students)
EmitReport ==
    /\ pc = "report"
    /\ \/ /\ stdout' = Append(stdout,
                           IF args.json
                           THEN Line("json", json_result(conflicts, missing_students))
                           ELSE Line("text", print_report(conflicts, missing_students)))
          /\ pc' = "exit"
          /\ UNCHANGED <<stderr, exit_code>>
       \/ /\ \E fault \in PrintFaults(args.json) :
                 Handle(Exception(fault, "{strerror}", "", 0))
          /\ UNCHANGED stdout
    /\ UNCHANGED <<engine, call, args, files>>

\* variant: sys.exit(1 if conflicts else 0)
ExitOnConflictsOnly ==
    /\ pc = "exit"
    /\ exit_code' = IF conflicts # <<>> THEN 1 ELSE 0
    /\ pc' = "exited"
    /\ UNCHANGED <<engine, call, args, files, stdout, stderr>>

\* sys.exit(1 if (conflicts or missing_students) else 0)
Exit ==
    /\ pc = "exit"
    /\ exit_code' = IF conflicts # <<>> \/ missing_students # <<>> THEN 1 ELSE 0
    /\ pc' = "exited"
    /\ UNCHANGED <<engine, call, args, files, stdout, stderr>>

NextCli ==
    \/ LoadPrevious
    \/ LoadProposed
    \/ ConstructChecker
    \/ CheckProposed
    \/ FindMissing
    \/ EmitReport
    \/ Exit

SpecCli == InitCli /\ [][NextCli]_vars

\* main runs to its end: no step waits for anything
SpecCliFair == SpecCli /\ WF_vars(NextCli)

(***************************************************************************)
(* Vocabulary of the specification (spec.md, section 3), stated as sets.   *)
(***************************************************************************)
\* the canonical Pair of two members: the 2-tuple in lexicographic order
CanonicalPair(x, y) == IF StrLt(x, y) THEN <<x, y>> ELSE <<y, x>>

\* the positions (a, b), a < b, of a group
PositionPairs(group) ==
    {ab \in (DOMAIN group) \X (DOMAIN group) : ab[1] < ab[2]}

\* PairSet of a roster
PairSetOf(roster) ==
    UNION { { CanonicalPair(roster[g][ab[1]], roster[g][ab[2]])
              : ab \in PositionPairs(roster[g]) } : g \in DOMAIN roster }

\* MemberSet of a roster
MemberSetOf(roster) ==
    UNION { { roster[g][i] : i \in DOMAIN roster[g] } : g \in DOMAIN roster }

\* the position pairs of a group whose canonical pair is in a PairSet
ConflictPositions(group, pairset) ==
    {ab \in PositionPairs(group) :
        CanonicalPair(group[ab[1]], group[ab[2]]) \in pairset}

RECURSIVE InEnumerationOrder(_)
\* a set of position pairs as the sequence (1,2), (1,3), ..., (2,3), ...
InEnumerationOrder(S) ==
    IF S = {} THEN <<>>
    ELSE LET m == CHOOSE p \in S : \A q \in S :
                      p[1] < q[1] \/ (p[1] = q[1] /\ p[2] <= q[2])
         IN  <<m>> \o InEnumerationOrder(S \ {m})

Reverse(s) == [i \in 1..Len(s) |-> s[Len(s) + 1 - i]]

\* the bijections of 1..n, for the rosters of the model
Bijections ==
    [n \in 0..(MaxPreviousSize + 1) |->
        {f \in [1..n -> 1..n] : \A i, j \in 1..n : f[i] = f[j] => i = j}]

\* every reordering of the groups of a roster
PermutationsOf(roster) ==
    { [i \in 1..Len(roster) |-> roster[f[i]]] : f \in Bijections[Len(roster)] }

Checked == op = "check_proposed_groups"
Searched == op = "find_missing_students"

(***************************************************************************)
(* C1: check_proposed_groups returns exactly one record for each proposed  *)
(* group index whose group holds two positions a < b with a canonical pair *)
(* in the PairSet of the previous roster, no record for any other index,   *)
(* the records in strictly ascending group_index order; the result is      *)
(* empty iff no proposed group holds a previously co-grouped pair.         *)
(***************************************************************************)
C1_OneRecordPerConflictingGroup ==
    Checked =>
        LET pairset == PairSetOf(previous_groups)
            Conflicting(i) ==
                ConflictPositions(proposed_groups[i + 1], pairset) # {}
        IN  /\ \A k \in DOMAIN conflicts :
                   conflicts[k].group_index \in 0..(Len(proposed_groups) - 1)
            /\ \A i \in 0..(Len(proposed_groups) - 1) :
                   Cardinality({k \in DOMAIN conflicts :
                                    conflicts[k].group_index = i})
                       = IF Conflicting(i) THEN 1 ELSE 0
            /\ \A k \in 1..(Len(conflicts) - 1) :
                   conflicts[k].group_index < conflicts[k + 1].group_index
            /\ (conflicts = <<>>) <=>
                   (\A i \in 0..(Len(proposed_groups) - 1) : ~Conflicting(i))

\* two proposed groups conflict and a third, between or before them, does not
C1_Witness ==
    /\ Checked
    /\ Len(proposed_groups) > Len(conflicts)
    /\ \E k \in DOMAIN conflicts : conflicts[k].group_index # k - 1

\* two records, in order
C1_WitnessTwoRecords ==
    /\ Checked
    /\ Len(conflicts) = 2

(***************************************************************************)
(* C2: each record's group_members is the proposed group as given, and its *)
(* conflicts list is exactly the position combinations a < b, in           *)
(* combination-enumeration order, whose canonical pair is in the previous  *)
(* PairSet: 'students' the two members in the group's order, 'pair' the    *)
(* same two members sorted.                                                *)
(***************************************************************************)
C2_RecordContents ==
    Checked =>
        \A k \in DOMAIN conflicts :
            LET record == conflicts[k]
                group == proposed_groups[record.group_index + 1]
                found == InEnumerationOrder(
                             ConflictPositions(group, PairSetOf(previous_groups)))
            IN  /\ record.group_members = group
                /\ Len(record.conflicts) = Len(found)
                /\ \A n \in DOMAIN found :
                       LET a == found[n][1]
                           b == found[n][2]
                       IN  /\ record.conflicts[n].students = <<group[a], group[b]>>
                           /\ record.conflicts[n].pair
                                  = CanonicalPair(group[a], group[b])
                           /\ ~StrLt(record.conflicts[n].pair[2],
                                     record.conflicts[n].pair[1])

\* a record with two entries, one of them listed in the order opposite to its
\* sorted pair
C2_Witness ==
    /\ Checked
    /\ \E k \in DOMAIN conflicts :
           /\ Len(conflicts[k].conflicts) >= 2
           /\ \E n \in DOMAIN conflicts[k].conflicts :
                  conflicts[k].conflicts[n].students
                      # conflicts[k].conflicts[n].pair

(***************************************************************************)
(* C3: find_missing_students returns a strictly ascending sequence whose   *)
(* elements are exactly MemberSet(previous) minus MemberSet(proposed):     *)
(* every previous member is in the proposed MemberSet or in the list,      *)
(* never both, never neither; an empty proposal yields every previous      *)
(* member.                                                                 *)
(***************************************************************************)
C3_MissingSortedDifference ==
    Searched =>
        LET returned == {missing_students[k] : k \in DOMAIN missing_students}
        IN  /\ \A k \in 1..(Len(missing_students) - 1) :
                   StrLt(missing_students[k], missing_students[k + 1])
            /\ returned = MemberSetOf(previous_groups) \ MemberSetOf(proposed_groups)
            /\ \A m \in MemberSetOf(previous_groups) :
                   (m \in MemberSetOf(proposed_groups)) # (m \in returned)
            /\ (proposed_groups = <<>>) => (returned = MemberSetOf(previous_groups))

\* two members are missing and a third previous member is proposed
C3_Witness ==
    /\ Searched
    /\ Len(missing_students) = 2
    /\ MemberSetOf(previous_groups) \cap MemberSetOf(proposed_groups) # {}

\* the engines GroupChecker(P') builds from the reorderings P' of each roster:
\* <<previous_pairs, previous_students>>
EnginesOfReorderings ==
    [roster \in PreviousRosters |->
        { <<build_pair_set(reordered), get_all_students(reordered)>> :
            reordered \in PermutationsOf(roster) }]

(***************************************************************************)
(* C7: an engine built from any reordering of the groups of the previous   *)
(* roster returns the same check_proposed_groups and find_missing_students *)
(* results.                                                                *)
(***************************************************************************)
C7_GroupOrderIrrelevant ==
    \A other \in EnginesOfReorderings[previous_groups] :
        /\ Checked =>
               check_proposed_groups(other[1], proposed_groups) = conflicts
        /\ Searched =>
               find_missing_students(other[2], proposed_groups) = missing_students

\* a conflict was found against a roster whose groups can really be reordered
C7_Witness ==
    /\ Checked
    /\ conflicts # <<>>
    /\ \E g, h \in DOMAIN previous_groups : previous_groups[g] # previous_groups[h]

\* the pair sets GroupChecker(P') builds from each roster P with one group
\* reversed
PairSetsOfReversals ==
    [roster \in PreviousRosters |->
        { build_pair_set([roster EXCEPT ![g] = Reverse(@)]) :
            g \in DOMAIN roster }]

(***************************************************************************)
(* C8: reversing the member order of any single previous group leaves the  *)
(* result of check_proposed_groups unchanged.                              *)
(***************************************************************************)
C8_MemberOrderIrrelevant ==
    Checked =>
        \A pairs \in PairSetsOfReversals[previous_groups] :
            check_proposed_groups(pairs, proposed_groups) = conflicts

\* a conflict was found against a group that reads differently when reversed
C8_Witness ==
    /\ Checked
    /\ conflicts # <<>>
    /\ \E g \in DOMAIN previous_groups :
           /\ Reverse(previous_groups[g]) # previous_groups[g]
           /\ PairSetOf(<<previous_groups[g]>>) \cap
                  PairSetOf(proposed_groups) # {}

(***************************************************************************)
(* C9: over any sequence of check_proposed_groups and                      *)
(* find_missing_students calls on one instance, previous_pairs and         *)
(* previous_students stay equal to the values derived at construction, and *)
(* each call's result is the one the construction roster and that call's   *)
(* argument determine.                                                     *)
(***************************************************************************)
C9_EngineStateFrozen ==
    /\ [](/\ previous_pairs = build_pair_set(previous_groups)
          /\ previous_students = get_all_students(previous_groups)
          /\ Checked =>
                 conflicts = check_proposed_groups(
                                 build_pair_set(previous_groups), proposed_groups)
          /\ Searched =>
                 missing_students = find_missing_students(
                                 get_all_students(previous_groups), proposed_groups))
    /\ [][/\ previous_groups' = previous_groups
          /\ previous_pairs' = previous_pairs
          /\ previous_students' = previous_students]_vars

\* a call has returned conflicts for a proposal that also holds pairs and
\* members the instance was not built from
C9_Witness ==
    /\ Checked
    /\ conflicts # <<>>
    /\ ~(PairSetOf(proposed_groups) \subseteq previous_pairs)
    /\ ~(MemberSetOf(proposed_groups) \subseteq previous_students)

(***************************************************************************)
(* C10 as stated: the PairSet built at construction holds no pair of two   *)
(* equal members, and for two distinct members the canonical pair is in    *)
(* the PairSet iff they co-occurred in at least one previous group.        *)
(***************************************************************************)
C10_NoSelfPairs ==
    /\ \A pair \in previous_pairs : pair[1] # pair[2]
    /\ \A x, y \in Members :
           x # y =>
               (CanonicalPair(x, y) \in previous_pairs
                   <=> \E g \in DOMAIN previous_groups :
                           {x, y} \subseteq MemberSetOf(<<previous_groups[g]>>))

(***************************************************************************)
(* C10 amended: a self-pair (x, x) is in the PairSet exactly when some     *)
(* previous group lists x at two or more positions, so none occurs for a   *)
(* roster whose groups list no member twice; for two distinct members the  *)
(* canonical pair is in the PairSet iff they co-occurred in at least one   *)
(* previous group; the PairSet holds nothing else.                         *)
(***************************************************************************)
C10_PairsByPosition ==
    /\ \A pair \in previous_pairs :
           /\ pair \in Members \X Members
           /\ ~StrLt(pair[2], pair[1])
    /\ \A x \in Members :
           (<<x, x>> \in previous_pairs
               <=> \E g \in DOMAIN previous_groups :
                       Cardinality({i \in DOMAIN previous_groups[g] :
                                        previous_groups[g][i] = x}) >= 2)
    /\ \A x, y \in Members :
           x # y =>
               (CanonicalPair(x, y) \in previous_pairs
                   <=> \E g \in DOMAIN previous_groups :
                           {x, y} \subseteq MemberSetOf(<<previous_groups[g]>>))

\* a roster that lists a member twice in a group beside another member
C10_Witness ==
    \E p, q \in previous_pairs : p[1] = p[2] /\ q[1] # q[2]

(***************************************************************************)
(* Vocabulary of the specification (spec.md, sections 6 and 7), stated on  *)
(* the documents the files were written from.                              *)
(***************************************************************************)
\* the document a well-formed text is the dump of
DocOfText == [text \in WellFormedTexts |-> CHOOSE doc \in Docs : JsonDump(doc) = text]

HoldsJson(file) == file.exists /\ file.text \in WellFormedTexts

\* an array whose elements are all arrays of only strings
IsRosterDoc(doc) ==
    /\ doc.t = "list"
    /\ \A g \in DOMAIN doc.v :
           /\ doc.v[g].t = "list"
           /\ \A m \in DOMAIN doc.v[g].v : doc.v[g].v[m].t = "str"

HoldsRoster(file) == HoldsJson(file) /\ IsRosterDoc(DocOfText[file.text])

\* the structural violations of a document (section 6)
ViolationsOf(doc) ==
    IF doc.t # "list" THEN {"top-level not an array"}
    ELSE (IF \E g \in DOMAIN doc.v : doc.v[g].t # "list"
          THEN {"an element not an array"} ELSE {})
         \cup
         (IF \E g \in DOMAIN doc.v :
                 /\ doc.v[g].t = "list"
                 /\ \E m \in DOMAIN doc.v[g].v : doc.v[g].v[m].t # "str"
          THEN {"an array element not an array of only strings"} ELSE {})

ViolationsOfFile(file) ==
    IF HoldsJson(file) THEN ViolationsOf(DocOfText[file.text]) ELSE {}

\* the violations of every file with some, with what the loader raises for it
RaisedFor ==
    { <<ViolationsOfFile(file), load_groups_from_file(PreviousPath, file).raised>> :
        file \in {f \in Files : ViolationsOfFile(f) # {}} }

\* the loads a run has made: <<file, outcome>>
LoadsMade ==
    (IF previous_load.called THEN {<<previous_file, previous_load>>} ELSE {})
        \cup (IF proposed_load.called THEN {<<proposed_file, proposed_load>>} ELSE {})

\* print() of the report raised
ReportFailed ==
    \E n \in DOMAIN stderr : stderr[n].data.kind \in {"OSError", "UnicodeEncodeError"}

LoadFailed == \E made \in LoadsMade : ~HoldsRoster(made[1])

(***************************************************************************)
(* C4: every run of main ends with exactly one exit code: 2 if loading     *)
(* either file fails (missing file, invalid JSON, structural violation) or *)
(* an unexpected error occurs; otherwise 1 if the conflicts list or the    *)
(* missing list is non-empty; otherwise 0.  So the exit code is 0 iff both *)
(* files loaded, nothing unexpected was raised and there are neither       *)
(* conflicts nor missing members.                                          *)
(***************************************************************************)
C4_ExitCodes ==
    /\ pc # "exited" => exit_code = Running /\ ENABLED NextCli
    /\ pc = "exited" =>
           /\ ~ENABLED NextCli
           /\ exit_code = IF LoadFailed \/ ReportFailed THEN 2
                          ELSE IF conflicts # <<>> \/ missing_students # <<>> THEN 1
                          ELSE 0
           /\ exit_code = 0 <=>
                  /\ previous_load.called /\ HoldsRoster(previous_file)
                  /\ proposed_load.called /\ HoldsRoster(proposed_file)
                  /\ ~ReportFailed
                  /\ PairSetOf(RosterOf(DocOfText[previous_file.text]))
                         \cap PairSetOf(RosterOf(DocOfText[proposed_file.text])) = {}
                  /\ MemberSetOf(RosterOf(DocOfText[previous_file.text]))
                         \subseteq MemberSetOf(RosterOf(DocOfText[proposed_file.text]))

\* a run that found no conflict but a missing member has exited with 1
C4_Witness ==
    /\ pc = "exited"
    /\ exit_code = 1
    /\ conflicts = <<>>
    /\ missing_students # <<>>

\* a run over two non-empty rosters has exited with 0
C4_WitnessClean ==
    /\ pc = "exited"
    /\ exit_code = 0
    /\ previous_students # {}

\* a run whose report could not be printed has exited with 2
C4_WitnessUnexpected ==
    /\ pc = "exited"
    /\ exit_code = 2
    /\ ReportFailed

(***************************************************************************)
(* C5: load_groups_from_file returns a roster iff the path exists, the     *)
(* content is JSON, the top-level value is an array and every element is   *)
(* an array of only strings, and then returns the document unchanged (what *)
(* was written is what is read); otherwise it returns nothing and raises   *)
(* FileNotFoundError if the path does not exist, else JSONDecodeError if   *)
(* the content is not JSON, else ValueError.                               *)
(***************************************************************************)
C5_LoaderContract ==
    \A made \in LoadsMade :
        LET file == made[1]
            load == made[2]
        IN  /\ (load.raised.kind = "none") <=> HoldsRoster(file)
            /\ HoldsRoster(file) =>
                   /\ load.value = DocOfText[file.text]
                   /\ JsonDump(load.value) = file.text
            /\ ~HoldsRoster(file) =>
                   /\ load.value = PyNone
                   /\ load.raised.kind =
                          IF ~file.exists THEN "FileNotFoundError"
                          ELSE IF ~HoldsJson(file) THEN "JSONDecodeError"
                          ELSE "ValueError"

\* the previous roster of two groups was returned and the proposed file was
\* rejected for its shape
C5_Witness ==
    /\ previous_load.called
    /\ previous_load.raised.kind = "none"
    /\ Len(previous_load.value.v) = 2
    /\ proposed_load.called
    /\ proposed_load.raised.kind = "ValueError"

(***************************************************************************)
(* C6 as stated: the three structural violations (top-level not an array,  *)
(* an element not an array, an array element holding a non-string) are     *)
(* rejected with distinct error kinds: the kind raised for a file with one *)
(* violation differs from the kind raised for any file with another.       *)
(***************************************************************************)
C6_DistinctErrorKinds ==
    \A made \in LoadsMade :
        \A other \in RaisedFor :
            (/\ ViolationsOfFile(made[1]) # {}
             /\ other[1] \cap ViolationsOfFile(made[1]) = {}) =>
                other[2].kind # made[2].raised.kind

(***************************************************************************)
(* C6 amended: the three structural violations are rejected with the same  *)
(* error kind, ValueError, and are told apart by the message alone: the    *)
(* message raised for a file with one violation differs from the message   *)
(* raised for any file with another.                                       *)
(***************************************************************************)
C6_SameKindDistinctMessages ==
    \A made \in LoadsMade :
        \A other \in RaisedFor :
            (/\ ViolationsOfFile(made[1]) # {}
             /\ other[1] \cap ViolationsOfFile(made[1]) = {}) =>
                /\ made[2].raised.kind = "ValueError"
                /\ other[2].kind = "ValueError"
                /\ other[2].message # made[2].raised.message

\* the proposed file was rejected because its second element is not an array
C6_Witness ==
    /\ proposed_load.called
    /\ ViolationsOfFile(proposed_file) = {"an element not an array"}
    /\ proposed_load.raised.kind = "ValueError"
    /\ proposed_load.raised.index = 1

(***************************************************************************)
(* Vocabulary of the specification (spec.md, sections 5 and 7): the steps  *)
(* of a run, told by what each leaves behind.                              *)
(***************************************************************************)
PreviousLoaded == previous_load.called /\ HoldsRoster(previous_file)
ProposedLoaded == proposed_load.called /\ HoldsRoster(proposed_file)
Constructed == checker = "GroupChecker"
ReportEmitted == \E n \in DOMAIN stdout : stdout[n].line \in {"json", "text"}
Exited == exit_code # Running

\* every step is taken after the steps before it, once
StepsInOrder ==
    /\ previous_load' # previous_load =>
           /\ ~previous_load.called /\ ~proposed_load.called
           /\ ~Constructed /\ op = "none" /\ ~ReportEmitted /\ ~Exited
    /\ proposed_load' # proposed_load =>
           /\ PreviousLoaded /\ ~proposed_load.called
           /\ ~Constructed /\ op = "none" /\ ~ReportEmitted /\ ~Exited
    /\ previous_file' # previous_file => ~previous_load.called
    /\ proposed_file' # proposed_file => ~proposed_load.called
    /\ engine' # engine =>
           /\ PreviousLoaded /\ ProposedLoaded
           /\ ~Constructed /\ Constructed'
           /\ op = "none" /\ ~ReportEmitted /\ ~Exited
           /\ previous_groups' = RosterOf(DocOfText[previous_file.text])
    /\ op' # op =>
           \/ /\ op = "none" /\ op' = "check_proposed_groups"
              /\ Constructed /\ ~ReportEmitted /\ ~Exited
              /\ proposed_groups' = RosterOf(DocOfText[proposed_file.text])
           \/ /\ op = "check_proposed_groups" /\ op' = "find_missing_students"
              /\ Constructed /\ ~ReportEmitted /\ ~Exited
              /\ proposed_groups' = proposed_groups
    /\ conflicts' # conflicts => op = "none"
    /\ missing_students' # missing_students => op = "check_proposed_groups"
    /\ ReportEmitted => stdout' = stdout
    /\ ReportEmitted' /\ ~ReportEmitted =>
           /\ op = "find_missing_students" /\ ~Exited /\ ~Exited'
           /\ Len(stdout') = Len(stdout) + 1
    /\ exit_code' # exit_code =>
           /\ ~Exited
           /\ \/ exit_code' = 2 /\ Len(stderr') = Len(stderr) + 1
              \/ exit_code' \in {0, 1} /\ ReportEmitted /\ stderr' = stderr
    /\ stderr' # stderr => stderr = <<>> /\ exit_code' = 2

\* a failed load is the end of the run
FailedLoadIsFatal ==
    LoadFailed =>
        /\ exit_code = 2
        /\ Len(stderr) = 1
        /\ stderr[1].line \in {"Error: {e}", "Error: Invalid JSON in file - {e}"}
        /\ stderr[1].data \in {made[2].raised : made \in LoadsMade}
        /\ ~Constructed
        /\ op = "none"
        /\ ~ReportEmitted
        /\ ~HoldsRoster(previous_file) => ~proposed_load.called
        /\ ~ENABLED NextCli

(***************************************************************************)
(* C11: in every run of main the steps occur in the order: load the        *)
(* previous-groups file, load the proposed-groups file, construct the      *)
(* engine, run check_proposed_groups and find_missing_students, emit the   *)
(* report, exit; every run reaches its exit.  If either load fails the run *)
(* prints one error and exits with code 2 in that step: the engine is      *)
(* never constructed, no later file is loaded, no text or JSON report is   *)
(* emitted and no step is taken again.                                     *)
(***************************************************************************)
C11_StepOrder ==
    /\ [][StepsInOrder]_vars
    /\ []FailedLoadIsFatal
    /\ <>Exited
    /\ [](Exited /\ ~LoadFailed /\ ~ReportFailed =>
              /\ PreviousLoaded /\ ProposedLoaded /\ Constructed
              /\ op = "find_missing_students" /\ ReportEmitted)

\* a verbose run loaded the previous roster, was refused the proposed file and
\* has exited
C11_Witness ==
    /\ Exited
    /\ PreviousLoaded
    /\ proposed_load.called
    /\ ~HoldsRoster(proposed_file)
    /\ stdout # <<>>
    /\ stderr # <<>>

\* a run has gone through every step and exited
C11_WitnessComplete ==
    /\ Exited
    /\ ReportEmitted
    /\ conflicts # <<>>
    /\ stderr = <<>>

=============================================================================
